---------------------------- MODULE Spec2Model ----------------------------
(***************************************************************************)
(* Model of scheduler.py, the schedule installer of aranet4-data-saver:    *)
(* setup_cron, setup_launchd, show_windows_instructions,                   *)
(* detect_existing_scheduler and main.                                     *)
(*                                                                         *)
(* Text (the cron table, the plist file, the batch file) is a sequence of  *)
(* characters.  The characters that decide the code's comparisons are kept *)
(* apart: the line break, the space, the script path (one character "P",   *)
(* so that " P" is the code's old_job_pattern), the two trigger times, and *)
(* the bodies of the generated and of older files.                         *)
(***************************************************************************)
EXTENDS Integers, Sequences, FiniteSets, TLC

(***************************************************************************)
(* Bounds of the model.                                                    *)
(***************************************************************************)
\* lines of an initial cron table in the reconciler-level specifications
MaxLines == 3
\* lines of an initial cron table in the specification of main
MaxRunLines == 1
\* reconciler invocations in a reconciler-level behaviour
MaxCalls == 2

(***************************************************************************)
(* Characters and text.                                                    *)
(***************************************************************************)
NL == "\n"
SP == " "
\* str(scheduler_path): the path of the aranet4_data_saver script
P == "P"
\* --time values: the default "0 0 * * *" and another one, "30 1 * * *"
Times == {"T1", "T2"}

Whitespace == {NL, SP}

Range(s) == {s[i] : i \in 1..Len(s)}

\* pat in s, for Python strings
Contains(s, pat) ==
    \E i \in 1..(Len(s) - Len(pat) + 1) : SubSeq(s, i, i + Len(pat) - 1) = pat

\* str.strip(): leading and trailing whitespace removed
RECURSIVE LStrip(_)
LStrip(s) ==
    IF s # <<>> /\ Head(s) \in Whitespace THEN LStrip(Tail(s)) ELSE s

RECURSIVE RStrip(_)
RStrip(s) ==
    IF s # <<>> /\ s[Len(s)] \in Whitespace
    THEN RStrip(SubSeq(s, 1, Len(s) - 1))
    ELSE s

Strip(s) == RStrip(LStrip(s))

\* the index of the first line break of text, 0 when it has none
FirstNL(text) ==
    IF NL \in Range(text)
    THEN CHOOSE i \in 1..Len(text) :
            text[i] = NL /\ \A j \in 1..(i - 1) : text[j] # NL
    ELSE 0

\* str.splitlines(): a final line break opens no empty last line
RECURSIVE SplitLines(_)
SplitLines(text) ==
    IF text = <<>> THEN <<>>
    ELSE LET i == FirstNL(text)
         IN  IF i = 0 THEN <<text>>
             ELSE <<SubSeq(text, 1, i - 1)>>
                    \o SplitLines(SubSeq(text, i + 1, Len(text)))

\* "\n".join(lines)
RECURSIVE JoinLines(_)
JoinLines(lines) ==
    IF lines = <<>> THEN <<>>
    ELSE IF Len(lines) = 1 THEN Head(lines)
    ELSE Head(lines) \o <<NL>> \o JoinLines(Tail(lines))

(***************************************************************************)
(* setup_cron                                                              *)
(***************************************************************************)
\* job_line = f"{time_str} {script_path}"
JobLine(time) == <<time, SP, P>>

\* old_job_pattern = f" {script_path}"
OldJobPattern == <<SP, P>>

\* A faulty CronScan, which C3 must tell from the code's: it keeps a foreign
\* line only when the line is no comment.
RECURSIVE CronScanDroppingComments(_, _)
CronScanDroppingComments(lines, job) ==
    IF lines = <<>> THEN [new |-> <<>>, has |-> FALSE]
    ELSE LET line == Head(lines)
             rest == CronScanDroppingComments(Tail(lines), job)
         IN  IF Contains(line, OldJobPattern) /\ line # job
             THEN [new |-> <<job>> \o rest.new, has |-> TRUE]
             ELSE IF line = job
             THEN [new |-> <<line>> \o rest.new, has |-> TRUE]
             ELSE IF Strip(line) # <<>> /\ Head(Strip(line)) # "#"
             THEN [new |-> <<line>> \o rest.new, has |-> rest.has]
             ELSE rest

\* The loop over current_crontab.splitlines(): new_crontab_lines and
\* has_existing_job.
RECURSIVE CronScan(_, _)
CronScan(lines, job) ==
    IF lines = <<>> THEN [new |-> <<>>, has |-> FALSE]
    ELSE LET line == Head(lines)
             rest == CronScan(Tail(lines), job)
         IN  IF Contains(line, OldJobPattern) /\ line # job
             THEN [new |-> <<job>> \o rest.new, has |-> TRUE]
             ELSE IF line = job
             THEN [new |-> <<line>> \o rest.new, has |-> TRUE]
             ELSE IF Strip(line) # <<>>
             THEN [new |-> <<line>> \o rest.new, has |-> rest.has]
             ELSE rest

\* new_crontab = "\n".join(new_crontab_lines) + "\n"
NewCrontab(lines) == JoinLines(lines) \o <<NL>>

\* What the run of setup_cron can meet: os.chmod on the script ("raise": the
\* script is missing), the crontab command ("missing": subprocess.run raises
\* FileNotFoundError, which the except clause of line 45 does not catch), and
\* "crontab -" ("fail": a return code other than 0, "raise": Popen or
\* communicate raises).  A failed install leaves the stored table as it was.
CronEnvs(h) ==
    [chmod : {IF h.script THEN "ok" ELSE "raise"}, crontab : {h.crontab},
     install : {"ok", "fail", "raise"}]

\* One call in a reconciler's log of calls.
Call(op, res) == [op |-> op, res |-> res]

\* A faulty CronDecide, which C4 must tell from the code's: it adds the job
\* line whether or not the table holds one.
CronDecideAlwaysAdding(scan, job) ==
    [branch |-> "add", lines |-> Append(scan.new, job)]

\* A faulty CronDecide, which C22 must tell from the code's: it puts a new
\* job line before the lines it keeps.
CronDecidePrepending(scan, job) ==
    IF ~scan.has
    THEN [branch |-> "add", lines |-> <<job>> \o scan.new]
    ELSE IF job \in Range(scan.new)
    THEN [branch |-> "noop", lines |-> scan.new]
    ELSE [branch |-> "update", lines |-> scan.new]

\* The decision after the loop (lines 69-75): the table to install, or
\* "noop" for the return of line 75.
CronDecide(scan, job) ==
    IF ~scan.has
    THEN [branch |-> "add", lines |-> Append(scan.new, job)]
    ELSE IF job \in Range(scan.new)
    THEN [branch |-> "noop", lines |-> scan.new]
    ELSE [branch |-> "update", lines |-> scan.new]

\* setup_cron(script_path, time_str) on the stored table text: the table it
\* leaves, whether it raised, the branch it took and the calls it made.
SetupCron(text, time, env) ==
    IF env.chmod = "raise"
    THEN [crontab |-> text, raised |-> TRUE, branch |-> "raise",
          calls |-> <<Call("chmod", "raise")>>]
    ELSE IF env.crontab = "missing"
    THEN [crontab |-> text, raised |-> TRUE, branch |-> "raise",
          calls |-> <<Call("chmod", "ok"), Call("crontab-l", "raise")>>]
    ELSE LET job == JobLine(time)
             d   == CronDecide(CronScan(SplitLines(text), job), job)
             pre == <<Call("chmod", "ok"), Call("crontab-l", "ok")>>
         IN  IF d.branch = "noop"
             THEN [crontab |-> text, raised |-> FALSE, branch |-> "noop",
                   calls |-> pre]
             ELSE [crontab |-> IF env.install = "ok"
                               THEN NewCrontab(d.lines) ELSE text,
                   raised |-> FALSE, branch |-> d.branch,
                   calls |-> Append(pre, Call("crontab-install", env.install))]

(***************************************************************************)
(* Files.  A file is absent, or exists with a content.                     *)
(***************************************************************************)
Absent == [exists |-> FALSE, content |-> <<>>]

File(content) == [exists |-> TRUE, content |-> content]

\* What open(path, "w") and f.write can do: "raise" is open raising (the file
\* is as it was), "truncate" is f.write raising after open has emptied the
\* file.
WriteResults == {"ok", "raise", "truncate"}

\* The file after `with open(path, "w") as f: f.write(content)`.
WriteFile(file, content, res) ==
    IF res = "ok" THEN File(content)
    ELSE IF res = "truncate" THEN File(<<>>)
    ELSE file

(***************************************************************************)
(* setup_launchd                                                           *)
(***************************************************************************)
\* plist_content: the rendered manifest, which ends with a line break.  It
\* depends on the script path and the label only, never on --time.
PlistContent == <<"plist", NL>>

\* What the run of setup_launchd can meet: os.makedirs of the logs directory,
\* the read of the existing plist, the launchctl command ("missing":
\* subprocess.run raises FileNotFoundError), the return codes of unload and
\* load, and the write of the plist.
LaunchdEnvs(h) ==
    [makedirs : {"ok", "raise"}, read : {"ok", "raise"},
     launchctl : {h.launchctl}, unload : {"ok", "fail"},
     write : WriteResults, load : {"ok", "fail"}]

\* A faulty LaunchdCheck, which C21 must tell from the code's: it unloads
\* the service also when there is no plist file.
LaunchdCheckUnloadingAbsent(file, loaded, env) ==
    IF ~file.exists
    THEN [noop |-> FALSE, loaded |-> FALSE,
          calls |-> <<Call("unload", env.unload)>>]
    ELSE IF env.read = "raise"
    THEN [noop |-> FALSE, loaded |-> loaded,
          calls |-> <<Call("read", "raise")>>]
    ELSE IF Strip(file.content) = Strip(PlistContent)
    THEN [noop |-> TRUE, loaded |-> loaded, calls |-> <<Call("read", "ok")>>]
    ELSE IF env.launchctl = "missing"
    THEN [noop |-> FALSE, loaded |-> loaded,
          calls |-> <<Call("read", "ok"), Call("unload", "raise")>>]
    ELSE [noop |-> FALSE,
          loaded |-> IF env.unload = "ok" THEN FALSE ELSE loaded,
          calls |-> <<Call("read", "ok"), Call("unload", env.unload)>>]

\* A faulty LaunchdCheck, which C7 must tell from the code's: it compares
\* the contents without trimming them.
LaunchdCheckUntrimmed(file, loaded, env) ==
    IF ~file.exists
    THEN [noop |-> FALSE, loaded |-> loaded, calls |-> <<>>]
    ELSE IF env.read = "raise"
    THEN [noop |-> FALSE, loaded |-> loaded,
          calls |-> <<Call("read", "raise")>>]
    ELSE IF file.content = PlistContent
    THEN [noop |-> TRUE, loaded |-> loaded, calls |-> <<Call("read", "ok")>>]
    ELSE IF env.launchctl = "missing"
    THEN [noop |-> FALSE, loaded |-> loaded,
          calls |-> <<Call("read", "ok"), Call("unload", "raise")>>]
    ELSE [noop |-> FALSE,
          loaded |-> IF env.unload = "ok" THEN FALSE ELSE loaded,
          calls |-> <<Call("read", "ok"), Call("unload", env.unload)>>]

\* A faulty LaunchdCheck, which C8 must tell from the code's: it does not
\* unload the old registration before the file is overwritten.
LaunchdCheckWithoutUnload(file, loaded, env) ==
    IF ~file.exists
    THEN [noop |-> FALSE, loaded |-> loaded, calls |-> <<>>]
    ELSE IF env.read = "raise"
    THEN [noop |-> FALSE, loaded |-> loaded,
          calls |-> <<Call("read", "raise")>>]
    ELSE IF Strip(file.content) = Strip(PlistContent)
    THEN [noop |-> TRUE, loaded |-> loaded, calls |-> <<Call("read", "ok")>>]
    ELSE [noop |-> FALSE, loaded |-> loaded,
          calls |-> <<Call("read", "ok")>>]

\* Lines 153-178: the check of an existing service.  "noop" is the return of
\* line 166; otherwise the calls made and the registration they leave.
LaunchdCheck(file, loaded, env) ==
    IF ~file.exists
    THEN [noop |-> FALSE, loaded |-> loaded, calls |-> <<>>]
    ELSE IF env.read = "raise"
    THEN [noop |-> FALSE, loaded |-> loaded,
          calls |-> <<Call("read", "raise")>>]
    ELSE IF Strip(file.content) = Strip(PlistContent)
    THEN [noop |-> TRUE, loaded |-> loaded, calls |-> <<Call("read", "ok")>>]
    ELSE IF env.launchctl = "missing"
    THEN [noop |-> FALSE, loaded |-> loaded,
          calls |-> <<Call("read", "ok"), Call("unload", "raise")>>]
    ELSE [noop |-> FALSE,
          loaded |-> IF env.unload = "ok" THEN FALSE ELSE loaded,
          calls |-> <<Call("read", "ok"), Call("unload", env.unload)>>]

\* Lines 184-193: launchctl load with check=True.  Only CalledProcessError
\* is caught: a missing launchctl raises out of setup_launchd.
LaunchdLoad(loaded, env) ==
    IF env.launchctl = "missing"
    THEN [loaded |-> loaded, raised |-> TRUE, call |-> Call("load", "raise")]
    ELSE IF env.load = "ok"
    THEN [loaded |-> TRUE, raised |-> FALSE, call |-> Call("load", "ok")]
    ELSE [loaded |-> loaded, raised |-> FALSE, call |-> Call("load", "fail")]

\* setup_launchd(script_path) on the plist file at the canonical path, the
\* registration with launchd and the logs directory.
SetupLaunchd(file, loaded, logDir, env) ==
    IF env.makedirs = "raise"
    THEN [plist |-> file, loaded |-> loaded, logDir |-> logDir,
          raised |-> TRUE, branch |-> "raise",
          calls |-> <<Call("makedirs", "raise")>>]
    ELSE LET chk    == LaunchdCheck(file, loaded, env)
             pre    == <<Call("makedirs", "ok")>> \o chk.calls
             branch == IF file.exists THEN "update" ELSE "create"
         IN  IF chk.noop
             THEN [plist |-> file, loaded |-> loaded, logDir |-> TRUE,
                   raised |-> FALSE, branch |-> "noop", calls |-> pre]
             ELSE IF env.write # "ok"
             THEN [plist |-> WriteFile(file, PlistContent, env.write),
                   loaded |-> chk.loaded, logDir |-> TRUE,
                   raised |-> TRUE, branch |-> branch,
                   calls |-> Append(pre, Call("write", env.write))]
             ELSE LET ld == LaunchdLoad(chk.loaded, env)
                  IN  [plist |-> File(PlistContent), loaded |-> ld.loaded,
                       logDir |-> TRUE, raised |-> ld.raised,
                       branch |-> branch,
                       calls |-> pre \o <<Call("write", "ok"), ld.call>>]

(***************************************************************************)
(* show_windows_instructions                                               *)
(***************************************************************************)
\* batch_content: the generated wrapper script, which ends with a line break
BatchContent == <<"batch", NL>>

WindowsEnvs(h) ==
    [makedirs : {"ok", "raise"}, read : {"ok", "raise"}, write : WriteResults]

\* The seconds of "timeout /t 600" in batch_content (line 215), after which
\* the batch file kills the run.
WatchdogSeconds == 600

\* The minutes the instructions tell the user to set as the task's limit:
\* step 6 of the "already exists" wording (line 265) and step 10 of the
\* "first time" walkthrough (line 282).
UpdateLimitMinutes == 15

FirstTimeLimitMinutes == 15

\* A faulty InstructionLimitMinutes, which C23 must tell from the code's:
\* the walkthrough recommends the batch file's own timeout as the limit.
InstructionLimitMinutesAsWatchdog(wording) ==
    IF wording = "update" THEN UpdateLimitMinutes
    ELSE WatchdogSeconds \div 60

\* The limit recommended by the instructions of the given wording.
InstructionLimitMinutes(wording) ==
    IF wording = "update" THEN UpdateLimitMinutes
    ELSE FirstTimeLimitMinutes

\* A faulty BatchCheck, which C19 must tell from the code's: it compares the
\* contents without trimming them.
BatchCheckUntrimmed(file, env) ==
    IF ~file.exists
    THEN [update |-> TRUE, calls |-> <<>>]
    ELSE IF env.read = "raise"
    THEN [update |-> TRUE, calls |-> <<Call("read", "raise")>>]
    ELSE [update |-> file.content # BatchContent,
          calls |-> <<Call("read", "ok")>>]

\* Lines 227-244: should_update and the read it rests on.
BatchCheck(file, env) ==
    IF ~file.exists
    THEN [update |-> TRUE, calls |-> <<>>]
    ELSE IF env.read = "raise"
    THEN [update |-> TRUE, calls |-> <<Call("read", "raise")>>]
    ELSE [update |-> Strip(file.content) # Strip(BatchContent),
          calls |-> <<Call("read", "ok")>>]

\* A faulty ShowWindowsInstructions, which C20 must tell from the code's: it
\* chooses the wording by whether the batch file exists when it prints, so a
\* file it has just created gets the "already exists" wording.
ShowWindowsInstructionsWordingAtPrint(file, logDir, env) ==
    IF env.makedirs = "raise"
    THEN [batch |-> file, logDir |-> logDir, raised |-> TRUE,
          branch |-> "raise", instructions |-> "none",
          calls |-> <<Call("makedirs", "raise")>>]
    ELSE LET chk == BatchCheck(file, env)
             pre == <<Call("makedirs", "ok")>> \o chk.calls
         IN  IF ~chk.update
             THEN [batch |-> file, logDir |-> TRUE, raised |-> FALSE,
                   branch |-> "noop", instructions |-> "update", calls |-> pre]
             ELSE [batch |-> WriteFile(file, BatchContent, env.write),
                   logDir |-> TRUE, raised |-> env.write # "ok",
                   branch |-> IF file.exists THEN "update" ELSE "create",
                   instructions |-> IF env.write = "ok" THEN "update" ELSE "none",
                   calls |-> Append(pre, Call("write", env.write))]

\* show_windows_instructions(script_path) on the batch file and the logs
\* directory; instructions is the wording printed: "first" (lines 268-284),
\* "update" (lines 257-266), or "none" when it raised before printing.
ShowWindowsInstructions(file, logDir, env) ==
    IF env.makedirs = "raise"
    THEN [batch |-> file, logDir |-> logDir, raised |-> TRUE,
          branch |-> "raise", instructions |-> "none",
          calls |-> <<Call("makedirs", "raise")>>]
    ELSE LET chk    == BatchCheck(file, env)
             pre    == <<Call("makedirs", "ok")>> \o chk.calls
             wording == IF file.exists THEN "update" ELSE "first"
         IN  IF ~chk.update
             THEN [batch |-> file, logDir |-> TRUE, raised |-> FALSE,
                   branch |-> "noop", instructions |-> wording,
                   calls |-> pre]
             ELSE [batch |-> WriteFile(file, BatchContent, env.write),
                   logDir |-> TRUE, raised |-> env.write # "ok",
                   branch |-> IF file.exists THEN "update" ELSE "create",
                   instructions |-> IF env.write = "ok" THEN wording
                                    ELSE "none",
                   calls |-> Append(pre, Call("write", env.write))]

(***************************************************************************)
(* The state: the stores the program reads and writes, the host it runs    *)
(* on, the record of the reconciler invocations, and the run of main.      *)
(***************************************************************************)
VARIABLES
    crontab,    \* the text of the user's cron table ("" when there is none)
    plist,      \* ~/Library/LaunchAgents/com.aranet4.datasaver.plist
    oldPlist,   \* whether the legacy com.user.aranet4.datasaver.plist exists
    loaded,     \* whether launchd holds a registration of the service
    batch,      \* aranet4_data_saver.bat beside the script
    logDir,     \* whether the logs directory exists
    host,       \* which commands and files the host has
    hist,       \* the reconciler invocations so far, oldest first
    stores0,    \* the stores when the behaviour began
    pc,         \* where main is
    system,     \* platform.system()
    args,       \* the parsed command line: method, force, time
    existing,   \* the result of detect_existing_scheduler
    method,     \* the method main settled on
    force,      \* args.force_update, which the prompt may set
    answer,     \* what the user typed at the prompt, "none" before it
    pending,    \* other_methods not yet visited by the loop of line 414
    exit,       \* the exit status of the process, -1 while it runs
    procs       \* the calls of setup_cron running beside each other

storeVars == <<crontab, plist, oldPlist, loaded, batch, logDir>>
mainVars  ==
    <<pc, system, args, existing, method, force, answer, pending, exit>>
vars      == <<storeVars, host, hist, stores0, mainVars, procs>>

Stores ==
    [crontab |-> crontab, plist |-> plist, oldPlist |-> oldPlist,
     loaded |-> loaded, batch |-> batch, logDir |-> logDir]

Methods == <<"cron", "launchd", "windows">>

\* What a reconciler can meet on host h.
Envs(m, h) ==
    IF m = "cron" THEN CronEnvs(h)
    ELSE IF m = "launchd" THEN LaunchdEnvs(h)
    ELSE WindowsEnvs(h)

\* The call of method m's reconciler on the stores st: the stores it leaves
\* and what it did.
Reconcile(m, time, st, env) ==
    IF m = "cron"
    THEN LET r == SetupCron(st.crontab, time, env)
         IN  [after |-> [st EXCEPT !.crontab = r.crontab],
              raised |-> r.raised, branch |-> r.branch, calls |-> r.calls,
              instructions |-> "none"]
    ELSE IF m = "launchd"
    THEN LET r == SetupLaunchd(st.plist, st.loaded, st.logDir, env)
         IN  [after |-> [st EXCEPT !.plist = r.plist, !.loaded = r.loaded,
                                   !.logDir = r.logDir],
              raised |-> r.raised, branch |-> r.branch, calls |-> r.calls,
              instructions |-> "none"]
    ELSE LET r == ShowWindowsInstructions(st.batch, st.logDir, env)
         IN  [after |-> [st EXCEPT !.batch = r.batch, !.logDir = r.logDir],
              raised |-> r.raised, branch |-> r.branch, calls |-> r.calls,
              instructions |-> r.instructions]

\* The stores become st.
SetStores(st) ==
    /\ crontab' = st.crontab
    /\ plist' = st.plist
    /\ oldPlist' = st.oldPlist
    /\ loaded' = st.loaded
    /\ batch' = st.batch
    /\ logDir' = st.logDir

\* The entry of hist for an invocation with result r.
Invocation(m, time, r) ==
    [method |-> m, time |-> time, before |-> Stores, after |-> r.after,
     raised |-> r.raised, branch |-> r.branch, calls |-> r.calls,
     instructions |-> r.instructions]

\* Method m's reconciler runs, with result r.
Invoke(m, time, r) ==
    /\ SetStores(r.after)
    /\ hist' = Append(hist, Invocation(m, time, r))

(***************************************************************************)
(* Initial states.                                                         *)
(***************************************************************************)
\* Lines of a cron table: the job at either time, a job of another program,
\* a comment, an empty and a blank line, the script path with no space
\* before it (as in "#/path/aranet4_data_saver"), and a line that goes on
\* after the script path (an argument, or a longer path).
JobLines == {JobLine(t) : t \in Times}

ForeignLines == {<<"x">>, <<"#">>}

BlankLines == {<<>>, <<SP>>}

OddLines == {<<"#", P>>, <<"T1", SP, P, "x">>}

TableLines == JobLines \cup ForeignLines \cup BlankLines \cup OddLines

\* the sequences of at most n elements of S
RECURSIVE SeqsUpTo(_, _)
SeqsUpTo(S, n) ==
    IF n = 0 THEN {<<>>}
    ELSE LET shorter == SeqsUpTo(S, n - 1)
         IN  shorter \cup {Append(q, x) : q \in shorter, x \in S}

\* The text crontab keeps for the lines ls: none for no line.
TableText(ls) == IF ls = <<>> THEN <<>> ELSE NewCrontab(ls)

Hosts == [crontab : {"ok", "missing"}, launchctl : {"ok", "missing"},
          script : BOOLEAN]

\* The two calls of setup_cron that SpecRace runs beside each other.
Procs == {1, 2}

\* No call of setup_cron is running beside another.
NoProcs ==
    [p \in Procs |-> [pc |-> "off", time |-> "T1", table |-> <<>>, ok |-> TRUE]]

NoArgs == [method |-> "auto", force |-> FALSE, time |-> "T1"]

NoExisting == [cron |-> FALSE, launchd |-> FALSE, windows |-> FALSE]

\* main is not running: the reconcilers are called directly.
MainIdle ==
    /\ pc = "idle"
    /\ system = "Darwin"
    /\ args = NoArgs
    /\ existing = NoExisting
    /\ method = "none"
    /\ force = FALSE
    /\ answer = "none"
    /\ pending = <<>>
    /\ exit = -1
    /\ procs = NoProcs

(***************************************************************************)
(* SpecCron: setup_cron called on any cron table.                          *)
(***************************************************************************)
InitCron ==
    /\ crontab \in {TableText(ls) : ls \in SeqsUpTo(TableLines, MaxLines)}
    /\ plist = Absent
    /\ oldPlist = FALSE
    /\ loaded = FALSE
    /\ batch = Absent
    /\ logDir = FALSE
    /\ host \in {h \in Hosts : h.launchctl = "ok"}
    /\ hist = <<>>
    /\ stores0 = Stores
    /\ MainIdle

CallCron ==
    /\ Len(hist) < MaxCalls
    /\ \E t \in Times, env \in CronEnvs(host) :
          Invoke("cron", t, Reconcile("cron", t, Stores, env))
    /\ UNCHANGED <<host, stores0, mainVars, procs>>

NextCron == CallCron

SpecCron == InitCron /\ [][NextCron]_vars

(***************************************************************************)
(* SpecTwice: the three reconcilers called on stores that begin empty.     *)
(***************************************************************************)
InitTwice ==
    /\ crontab = <<>>
    /\ plist = Absent
    /\ oldPlist = FALSE
    /\ loaded = FALSE
    /\ batch = Absent
    /\ logDir = FALSE
    /\ host \in Hosts
    /\ hist = <<>>
    /\ stores0 = Stores
    /\ MainIdle

CallAny ==
    /\ Len(hist) < MaxCalls
    /\ \E i \in 1..Len(Methods), t \in Times :
          \E env \in Envs(Methods[i], host) :
             Invoke(Methods[i], t, Reconcile(Methods[i], t, Stores, env))
    /\ UNCHANGED <<host, stores0, mainVars, procs>>

NextTwice == CallAny

SpecTwice == InitTwice /\ [][NextTwice]_vars

(***************************************************************************)
(* SpecLaunchd: setup_launchd called on any plist file.                    *)
(***************************************************************************)
\* Plist files the run can find: none, the rendered one, the rendered one
\* with other whitespace around it, one rendered by an older version, and an
\* empty one.
PlistFiles ==
    {Absent, File(PlistContent), File(<<NL, "plist", SP, NL, NL>>),
     File(<<"oldplist", NL>>), File(<<>>)}

InitLaunchd ==
    /\ crontab = <<>>
    /\ plist \in PlistFiles
    /\ oldPlist \in BOOLEAN
    /\ loaded \in BOOLEAN
    /\ batch = Absent
    /\ logDir \in BOOLEAN
    /\ host \in {h \in Hosts : h.crontab = "ok" /\ h.script}
    /\ hist = <<>>
    /\ stores0 = Stores
    /\ MainIdle

CallLaunchd ==
    /\ Len(hist) < MaxCalls
    /\ \E env \in LaunchdEnvs(host) :
          Invoke("launchd", "T1", Reconcile("launchd", "T1", Stores, env))
    /\ UNCHANGED <<host, stores0, mainVars, procs>>

NextLaunchd == CallLaunchd

SpecLaunchd == InitLaunchd /\ [][NextLaunchd]_vars

(***************************************************************************)
(* SpecWindows: show_windows_instructions called on any batch file.        *)
(***************************************************************************)
\* Batch files the run can find: none, the generated one, the generated one
\* with other whitespace around it, one generated by an older version, and
\* an empty one.
BatchFiles ==
    {Absent, File(BatchContent), File(<<NL, "batch", SP, NL, NL>>),
     File(<<"oldbatch", NL>>), File(<<>>)}

InitWindows ==
    /\ crontab = <<>>
    /\ plist = Absent
    /\ oldPlist = FALSE
    /\ loaded = FALSE
    /\ batch \in BatchFiles
    /\ logDir \in BOOLEAN
    /\ host \in Hosts
    /\ hist = <<>>
    /\ stores0 = Stores
    /\ MainIdle

CallWindows ==
    /\ Len(hist) < MaxCalls
    /\ \E env \in WindowsEnvs(host) :
          Invoke("windows", "T1", Reconcile("windows", "T1", Stores, env))
    /\ UNCHANGED <<host, stores0, mainVars, procs>>

NextWindows == CallWindows

SpecWindows == InitWindows /\ [][NextWindows]_vars

(***************************************************************************)
(* SpecRace: two calls of setup_cron for the same script run beside each   *)
(* other.  Each reads the table (crontab -l) and later installs the table  *)
(* it built from what it read (crontab -); nothing locks the table between *)
(* the two steps.                                                          *)
(***************************************************************************)
InitRace ==
    /\ crontab \in {TableText(ls) : ls \in SeqsUpTo(TableLines, MaxRunLines)}
    /\ plist = Absent
    /\ oldPlist = FALSE
    /\ loaded = FALSE
    /\ batch = Absent
    /\ logDir = FALSE
    /\ host \in {h \in Hosts : h.launchctl = "ok"}
    /\ hist = <<>>
    /\ stores0 = Stores
    /\ pc = "idle"
    /\ system = "Darwin"
    /\ args = NoArgs
    /\ existing = NoExisting
    /\ method = "none"
    /\ force = FALSE
    /\ answer = "none"
    /\ pending = <<>>
    /\ exit = -1
    /\ procs \in [Procs -> [pc : {"start"}, time : Times, table : {<<>>},
                            ok : {TRUE}]]

\* Lines 39-75 of call p: os.chmod, crontab -l, the loop and the decision.
\* The call ends here when a call raises or at the return of line 75;
\* otherwise it holds new_crontab, to be installed.
RaceRead(p) ==
    /\ procs[p].pc = "start"
    /\ \E env \in CronEnvs(host) :
          LET job == JobLine(procs[p].time)
              d   == CronDecide(CronScan(SplitLines(crontab), job), job)
          IN  procs' =
                IF env.chmod = "raise" \/ env.crontab = "missing"
                THEN [procs EXCEPT ![p].pc = "done", ![p].ok = FALSE]
                ELSE IF d.branch = "noop"
                THEN [procs EXCEPT ![p].pc = "done"]
                ELSE [procs EXCEPT ![p].pc = "write",
                                   ![p].table = NewCrontab(d.lines)]
    /\ UNCHANGED <<storeVars, host, hist, stores0, mainVars>>

\* Lines 80-93 of call p: crontab - installs the table built from what the
\* call read, whatever the table holds by now.
RaceWrite(p) ==
    /\ procs[p].pc = "write"
    /\ \E env \in CronEnvs(host) :
          /\ crontab' = IF env.install = "ok" THEN procs[p].table ELSE crontab
          /\ procs' = [procs EXCEPT ![p].pc = "done",
                                    ![p].ok = (env.install = "ok")]
    /\ UNCHANGED <<plist, oldPlist, loaded, batch, logDir, host, hist,
                   stores0, mainVars>>

NextRace == \E p \in Procs : RaceRead(p) \/ RaceWrite(p)

SpecRace == InitRace /\ [][NextRace]_vars

(***************************************************************************)
(* detect_existing_scheduler and main                                      *)
(***************************************************************************)
Systems == {"Darwin", "Linux", "Windows", "FreeBSD"}

\* A faulty DetectExistingScheduler, which C16 must tell from the code's: it
\* reads the cron table without running the crontab command, so a missing
\* command does not make cron absent.
DetectExistingSchedulerWithoutCommand(sys, st, h) ==
    [cron    |-> sys \in {"Darwin", "Linux"} /\ Contains(st.crontab, <<P>>),
     launchd |-> sys = "Darwin" /\ (st.plist.exists \/ st.oldPlist),
     windows |-> st.batch.exists]

\* detect_existing_scheduler() on system sys, the stores st and the host h.
\* A crontab command that cannot be run is an exception the probe swallows.
DetectExistingScheduler(sys, st, h) ==
    [cron    |-> /\ sys \in {"Darwin", "Linux"}
                 /\ h.crontab = "ok"
                 /\ Contains(st.crontab, <<P>>),
     launchd |-> sys = "Darwin" /\ (st.plist.exists \/ st.oldPlist),
     windows |-> st.batch.exists]

\* A faulty SelectMethod, which C13 must tell from the code's: on Darwin it
\* takes launchd whatever the probe found.
SelectMethodIgnoringProbe(argMethod, sys, ex) ==
    IF argMethod # "auto" THEN argMethod
    ELSE IF sys = "Darwin" THEN "launchd"
    ELSE IF sys = "Linux" THEN "cron"
    ELSE IF sys = "Windows" THEN "windows"
    ELSE "unsupported"

\* Lines 363-380: the method, or "unsupported" for the exit of line 378.
SelectMethod(argMethod, sys, ex) ==
    IF argMethod # "auto" THEN argMethod
    ELSE IF sys = "Darwin"
    THEN IF ex.launchd THEN "launchd"
         ELSE IF ex.cron THEN "cron"
         ELSE "launchd"
    ELSE IF sys = "Linux" THEN "cron"
    ELSE IF sys = "Windows" THEN "windows"
    ELSE "unsupported"

\* the elements m of the sequence ms with keep[m], in order
RECURSIVE Select(_, _)
Select(ms, keep) ==
    IF ms = <<>> THEN <<>>
    ELSE IF keep[Head(ms)] THEN <<Head(ms)>> \o Select(Tail(ms), keep)
    ELSE Select(Tail(ms), keep)

\* other_existing (line 383): the methods detected, other than method m
OtherExisting(ex, m) ==
    Select(Methods, [x \in Range(Methods) |-> ex[x] /\ x # m])

\* What the user can type at the prompt.
Answers == {"y", "Y", "yes", "f", "F", "n", ""}

\* choice.lower()
Lower(choice) ==
    IF choice = "Y" THEN "y"
    ELSE IF choice = "F" THEN "f"
    ELSE choice

\* A faulty Decide, which C5 must tell from the code's: it cancels on "n"
\* only, and proceeds on any other answer.
DecideCancellingOnNOnly(choice) ==
    IF Lower(choice) = "f" THEN "force"
    ELSE IF Lower(choice) = "n" THEN "cancel"
    ELSE "proceed"

\* A faulty Decide, which C15 must tell from the code's: it takes the answer
\* f for a plain yes.
DecideForceAsYes(choice) ==
    IF Lower(choice) \notin {"y", "yes", "f"} THEN "cancel"
    ELSE "proceed"

\* A faulty Decide, which C24 must tell from the code's: it takes a yes for
\* the answer f.
DecideYesAsForce(choice) ==
    IF Lower(choice) \in {"y", "yes", "f"} THEN "force"
    ELSE "cancel"

\* Lines 391-395: what main does with the answer.
Decide(choice) ==
    IF Lower(choice) = "f" THEN "force"
    ELSE IF Lower(choice) \notin {"y", "yes"} THEN "cancel"
    ELSE "proceed"

\* other_methods (lines 408-412)
OtherMethods(m, ex, sys) ==
    Select(Methods,
           [x \in Range(Methods) |->
               x # m /\ (ex[x] \/ sys \in {"Darwin", "Linux", "Windows"})])

\* Lines 416-424: whether the loop calls the reconciler of other_method m.
OtherApplies(m, sys) ==
    \/ m = "cron" /\ sys \in {"Darwin", "Linux"}
    \/ m = "launchd" /\ sys = "Darwin"
    \/ m = "windows" /\ sys = "Windows"

\* Line 361: the probe.
Probe ==
    /\ pc = "Probing"
    /\ existing' = DetectExistingScheduler(system, Stores, host)
    /\ pc' = "Selecting"
    /\ UNCHANGED <<storeVars, host, hist, stores0, procs, system, args, method,
                   force, answer, pending, exit>>

\* Lines 363-380: the method is chosen, or the platform is not supported.
SelectStep ==
    /\ pc = "Selecting"
    /\ LET m == SelectMethod(args.method, system, existing)
       IN  IF m = "unsupported"
           THEN pc' = "Unsupported" /\ exit' = 1 /\ UNCHANGED method
           ELSE pc' = "ConflictCheck" /\ method' = m /\ UNCHANGED exit
    /\ UNCHANGED <<storeVars, host, hist, stores0, procs, system, args, existing,
                   force, answer, pending>>

\* Lines 382-395: the warning and the prompt, when another method exists and
\* --force-update was not given.
ConflictCheck ==
    /\ pc = "ConflictCheck"
    /\ \/ /\ OtherExisting(existing, method) # <<>> /\ ~force
          /\ \E choice \in Answers :
                /\ answer' = choice
                /\ force' = (Decide(choice) = "force")
                /\ IF Decide(choice) = "cancel"
                   THEN pc' = "Cancelled" /\ exit' = 0
                   ELSE pc' = "Applying" /\ UNCHANGED exit
       \/ /\ ~(OtherExisting(existing, method) # <<>> /\ ~force)
          /\ pc' = "Applying"
          /\ UNCHANGED <<force, answer, exit>>
    /\ UNCHANGED <<storeVars, host, hist, stores0, procs, system, args, existing,
                   method, pending>>

\* Lines 399-412: the reconciler of the chosen method runs; an exception it
\* raises ends the process.  other_methods is computed when force is set.
ApplySelected ==
    /\ pc = "Applying"
    /\ \E env \in Envs(method, host) :
          LET r == Reconcile(method, args.time, Stores, env)
          IN  /\ Invoke(method, args.time, r)
              /\ IF r.raised
                 THEN pc' = "Crashed" /\ exit' = 1 /\ UNCHANGED pending
                 ELSE /\ pc' = "Others"
                      /\ pending' = IF force
                                    THEN OtherMethods(method, existing, system)
                                    ELSE <<>>
                      /\ UNCHANGED exit
    /\ UNCHANGED <<host, stores0, procs, system, args, existing, method, force,
                   answer>>

\* Lines 414-424: one turn of the loop over other_methods.
ApplyOther ==
    /\ pc = "Others"
    /\ pending # <<>>
    /\ \/ /\ OtherApplies(Head(pending), system)
          /\ \E env \in Envs(Head(pending), host) :
                LET r == Reconcile(Head(pending), args.time, Stores, env)
                IN  /\ Invoke(Head(pending), args.time, r)
                    /\ IF r.raised
                       THEN pc' = "Crashed" /\ exit' = 1
                       ELSE UNCHANGED <<pc, exit>>
       \/ /\ ~OtherApplies(Head(pending), system)
          /\ UNCHANGED <<storeVars, hist, pc, exit>>
    /\ pending' = Tail(pending)
    /\ UNCHANGED <<host, stores0, procs, system, args, existing, method, force,
                   answer>>

\* Lines 426-439: the closing messages; the process ends with status 0.
Finish ==
    /\ pc = "Others"
    /\ pending = <<>>
    /\ pc' = "Done"
    /\ exit' = 0
    /\ UNCHANGED <<storeVars, host, hist, stores0, procs, system, args, existing,
                   method, force, answer, pending>>

(***************************************************************************)
(* Spec: one run of main, on any stores, platform and command line.        *)
(***************************************************************************)
\* Lines of the cron table a run of main begins with: the job at either
\* time, and the script path in a comment.
RunTableLines == JobLines \cup {<<"#", P>>}

\* The hosts a platform can be: launchctl is a command of macOS, crontab is
\* none of Windows.
HostsOf(sys) ==
    {h \in Hosts :
        /\ h.launchctl = "ok" <=> sys = "Darwin"
        /\ sys = "Windows" => h.crontab = "missing"}

Init ==
    /\ crontab \in {TableText(ls) : ls \in SeqsUpTo(RunTableLines, MaxRunLines)}
    /\ plist \in {Absent, File(PlistContent), File(<<"oldplist", NL>>)}
    /\ oldPlist \in BOOLEAN
    /\ loaded = plist.exists
    /\ batch \in {Absent, File(BatchContent), File(<<"oldbatch", NL>>)}
    /\ logDir = (plist.exists \/ batch.exists)
    /\ system \in Systems
    /\ host \in HostsOf(system)
    /\ hist = <<>>
    /\ stores0 = Stores
    /\ pc = "Probing"
    /\ args \in [method : {"cron", "launchd", "windows", "auto"},
                 force : BOOLEAN, time : Times]
    /\ existing = NoExisting
    /\ method = "none"
    /\ force = args.force
    /\ answer = "none"
    /\ pending = <<>>
    /\ exit = -1
    /\ procs = NoProcs

Next ==
    \/ Probe
    \/ SelectStep
    \/ ConflictCheck
    \/ ApplySelected
    \/ ApplyOther
    \/ Finish

Spec == Init /\ [][Next]_vars

(***************************************************************************)
(* Vocabulary of the properties.                                           *)
(***************************************************************************)
\* The invocations of method m's reconciler recorded in hist.
InvocationsOf(m) == {k \in 1..Len(hist) : hist[k].method = m}

\* The invocation returned normally and none of its calls failed.
AllCallsOk(inv) ==
    ~inv.raised /\ \A i \in 1..Len(inv.calls) : inv.calls[i].res = "ok"

\* The operations among ops that the invocation called, in order.
RECURSIVE OpsIn(_, _)
OpsIn(calls, ops) ==
    IF calls = <<>> THEN <<>>
    ELSE IF Head(calls).op \in ops
    THEN <<Head(calls).op>> \o OpsIn(Tail(calls), ops)
    ELSE OpsIn(Tail(calls), ops)

\* The invocation made the call op with result res.
Called(inv, op, res) == Call(op, res) \in Range(inv.calls)

\* The calls that change a store or the registration.
MutatingOps == {"crontab-install", "unload", "write", "load"}

\* A line of the cron table references the target path: it holds the path
\* after a space, as every line "<time> <path>" does.
ReferencesTarget(line) == Contains(line, OldJobPattern)

IsBlank(line) == Strip(line) = <<>>

RECURSIVE Filter(_, _)
Filter(lines, keep) ==
    IF lines = <<>> THEN <<>>
    ELSE IF Head(lines) \in keep
    THEN <<Head(lines)>> \o Filter(Tail(lines), keep)
    ELSE Filter(Tail(lines), keep)

\* The lines of the table text that reference the target path, in order.
TargetLinesOf(text) ==
    LET ls == SplitLines(text)
    IN  Filter(ls, {l \in Range(ls) : ReferencesTarget(l)})

\* The non-blank lines of the table text that do not reference the target
\* path, in order.
ForeignLinesOf(text) ==
    LET ls == SplitLines(text)
    IN  Filter(ls, {l \in Range(ls) : ~ReferencesTarget(l) /\ ~IsBlank(l)})

\* The part of the stores that method m's reconciler manages.
BackendStore(m, st) ==
    IF m = "cron" THEN <<st.crontab>>
    ELSE IF m = "launchd" THEN <<st.plist, st.loaded>>
    ELSE <<st.batch>>

(***************************************************************************)
(* Properties of setup_cron, under SpecCron.                               *)
(***************************************************************************)
\* C1: for every input table, the table setup_cron leaves in the store has
\* exactly one line referencing the target path.  Stated for the calls in
\* which no command fails.  The code does not establish it: a table with two
\* lines for the target keeps both.
C1_ExactlyOneTargetLine ==
    \A k \in InvocationsOf("cron") :
        AllCallsOk(hist[k]) => Len(TargetLinesOf(hist[k].after.crontab)) = 1

\* C2: upsert.  When the table holds one line that references the target
\* path and differs from the desired line, then after setup_cron the table
\* has the desired line at that line's position and every other line is as
\* it was.  Stated for the calls in which no command fails.  The code never
\* installs the table it builds for this case.
C2_UpsertReplacesInPlace ==
    \A k \in InvocationsOf("cron") :
        LET ls  == SplitLines(hist[k].before.crontab)
            job == JobLine(hist[k].time)
        IN  \A i \in 1..Len(ls) :
                ( /\ AllCallsOk(hist[k])
                  /\ ReferencesTarget(ls[i])
                  /\ ls[i] # job
                  /\ \A j \in 1..Len(ls) : j # i => ~ReferencesTarget(ls[j]) )
                => SplitLines(hist[k].after.crontab) = [ls EXCEPT ![i] = job]

\* C3: foreign-line preservation.  Whatever setup_cron does (add, already
\* satisfied, a failed install, an exception), the non-blank lines that do
\* not reference the target path are in the table afterwards, verbatim and
\* in the same order, and no other such line has appeared.
C3_ForeignLinesPreserved ==
    \A k \in InvocationsOf("cron") :
        ForeignLinesOf(hist[k].after.crontab)
            = ForeignLinesOf(hist[k].before.crontab)

\* C3 witness: setup_cron installed a new table, built from one that held
\* two different foreign lines and a blank line.
C3_Witness ==
    \E k \in InvocationsOf("cron") :
        /\ hist[k].branch = "add"
        /\ Called(hist[k], "crontab-install", "ok")
        /\ hist[k].after.crontab # hist[k].before.crontab
        /\ Cardinality(Range(ForeignLinesOf(hist[k].before.crontab))) = 2
        /\ \E l \in Range(SplitLines(hist[k].before.crontab)) : IsBlank(l)

(***************************************************************************)
(* Idempotence, under SpecTwice.                                           *)
(***************************************************************************)
\* k and l are the first and the second invocation of one reconciler, for
\* the same schedule, and the backend's store was empty before the first.
TwiceInARow(k, l) ==
    /\ k < l
    /\ hist[k].method = hist[l].method
    /\ hist[k].time = hist[l].time
    /\ \A j \in 1..(l - 1) : j # k => hist[j].method # hist[k].method
    /\ BackendStore(hist[k].method, hist[k].before)
         = BackendStore(hist[k].method, stores0)

\* The second of two runs changed nothing and took the no-op path.
SecondRunIsNoOp(k, l) ==
    LET m == hist[k].method
    IN  /\ BackendStore(m, hist[l].after) = BackendStore(m, hist[k].after)
        /\ hist[l].branch = "noop"
        /\ OpsIn(hist[l].calls, MutatingOps) = <<>>
        /\ m = "cron" => Len(TargetLinesOf(hist[l].after.crontab)) = 1

MatchesRendered(file) ==
    file.exists /\ Strip(file.content) = Strip(PlistContent)

\* C7 as stated: when the plist file already holds the rendered content
\* (after trimming), setup_launchd makes no filesystem call and no
\* service-manager call: no makedirs, no unload, no write, no load.
C7_NoOpMakesNoCall ==
    \A k \in InvocationsOf("launchd") :
        (MatchesRendered(hist[k].before.plist)
           /\ ~Called(hist[k], "read", "raise"))
        => /\ OpsIn(hist[k].calls, MutatingOps \cup {"makedirs"}) = <<>>
           /\ hist[k].after = hist[k].before

\* C7 as amended: when the plist file already holds the rendered content
\* (after trimming) and setup_launchd can read it, setup_launchd makes no
\* unload, no write and no load, and leaves the file and the registration
\* as they were; it has called os.makedirs for the logs directory before.
C7_NoOpLeavesManifestAlone ==
    \A k \in InvocationsOf("launchd") :
        (MatchesRendered(hist[k].before.plist)
           /\ ~Called(hist[k], "read", "raise"))
        => /\ OpsIn(hist[k].calls, MutatingOps) = <<>>
           /\ hist[k].after.plist = hist[k].before.plist
           /\ hist[k].after.loaded = hist[k].before.loaded
           /\ hist[k].calls[1].op = "makedirs"

\* C7 witness: setup_launchd returned on a registered plist that differs
\* from the rendered one in whitespace only, and has created the logs
\* directory.
C7_Witness ==
    \E k \in InvocationsOf("launchd") :
        /\ hist[k].branch = "noop"
        /\ hist[k].before.plist # File(PlistContent)
        /\ hist[k].before.loaded
        /\ ~hist[k].before.logDir
        /\ hist[k].after.logDir

\* The update case: the plist file exists and differs from the rendered one.
NeedsUpdate(file) ==
    file.exists /\ Strip(file.content) # Strip(PlistContent)

LaunchdOps == {"unload", "write", "load"}

\* C8 as stated: when the plist file exists with different content,
\* setup_launchd performs unload, write and load, in this order.
C8_UpdateUnloadsWritesLoads ==
    \A k \in InvocationsOf("launchd") :
        NeedsUpdate(hist[k].before.plist)
        => OpsIn(hist[k].calls, LaunchdOps) = <<"unload", "write", "load">>

\* C8 as amended: when the plist file exists with different content and
\* setup_launchd has read it, it calls unload, then overwrites the file,
\* then, if the overwrite succeeded, calls load, in this order, whatever
\* the unload did; when the overwrite raises, load is not called.
C8_UpdateOrderAfterRead ==
    \A k \in InvocationsOf("launchd") :
        (NeedsUpdate(hist[k].before.plist) /\ Called(hist[k], "read", "ok"))
        => OpsIn(hist[k].calls, LaunchdOps)
             = IF Called(hist[k], "write", "ok")
               THEN <<"unload", "write", "load">>
               ELSE <<"unload", "write">>

\* C8 witness: an update in which unload failed, and the file was written
\* and loaded all the same.
C8_Witness ==
    \E k \in InvocationsOf("launchd") :
        /\ NeedsUpdate(hist[k].before.plist)
        /\ Called(hist[k], "unload", "fail")
        /\ Called(hist[k], "write", "ok")
        /\ Called(hist[k], "load", "ok")
        /\ hist[k].after.plist = File(PlistContent)
        /\ hist[k].after.loaded

\* C9: whenever the load fails (launchctl rejects the plist, or cannot be
\* run), setup_launchd returns normally and the plist file holds the
\* rendered content.  The code raises when launchctl cannot be run.
C9_LoadFailureReturnsNormally ==
    \A k \in InvocationsOf("launchd") :
        (Called(hist[k], "load", "fail") \/ Called(hist[k], "load", "raise"))
        => /\ ~hist[k].raised
           /\ hist[k].after.plist = File(PlistContent)

(***************************************************************************)
(* Properties of main, under Spec.                                         *)
(***************************************************************************)
\* The backends that are applicable to a host platform.
ApplicableTo(sys) ==
    IF sys = "Darwin" THEN {"cron", "launchd"}
    ELSE IF sys = "Linux" THEN {"cron"}
    ELSE IF sys = "Windows" THEN {"windows"}
    ELSE {}

\* The user declined at the prompt: the answer, in lower case, is none of
\* y, yes and f.
Declined == answer # "none" /\ Lower(answer) \notin {"y", "yes", "f"}

\* C5: conflict decline.  When another backend than the selected one was
\* probed present, --force-update is absent and the user declines at the
\* prompt, the run ends cancelled with exit status 0, no reconciler was
\* invoked, and the cron table, the plist file, the registration and the
\* batch file are as they were before the run.
C5_DeclineCancelsWithoutWrites ==
    /\ answer # "none" => (OtherExisting(existing, method) # <<>> /\ ~args.force)
    /\ Declined => /\ pc = "Cancelled"
                   /\ exit = 0
                   /\ hist = <<>>
                   /\ Stores = stores0

\* C5 witness: cron and launchd were both probed present, the user answered
\* "n", and the run is cancelled.
C5_Witness ==
    /\ pc = "Cancelled"
    /\ answer = "n"
    /\ existing.cron /\ existing.launchd
    /\ crontab # <<>> /\ plist.exists

\* The backend's store holds what its reconciler generates for the schedule
\* of this run.
Converged(m) ==
    IF m = "cron"
    THEN LET ts == TargetLinesOf(crontab)
         IN  ts # <<>> /\ \A i \in 1..Len(ts) : ts[i] = JobLine(args.time)
    ELSE IF m = "launchd" THEN MatchesRendered(plist)
    ELSE batch.exists /\ Strip(batch.content) = Strip(BatchContent)

\* C6: forced convergence.  After a run with --force-update in which every
\* store operation succeeds, every backend applicable to the host platform
\* is present and holds the content its reconciler generates for the
\* requested schedule.  The code leaves a cron job with another trigger
\* time as it is.
C6_ForcedRunConverges ==
    (pc = "Done" /\ args.force /\ \A k \in 1..Len(hist) : AllCallsOk(hist[k]))
    => \A m \in ApplicableTo(system) : Converged(m)

\* The invocation failed in one of the ways C10 lists: the cron list or
\* install command missing or failing, the plist write failing, the load
\* failing.
FailedReconciler(inv) ==
    \/ Called(inv, "crontab-l", "raise")
    \/ Called(inv, "crontab-install", "fail")
    \/ Called(inv, "crontab-install", "raise")
    \/ inv.method = "launchd" /\ Called(inv, "write", "raise")
    \/ inv.method = "launchd" /\ Called(inv, "write", "truncate")
    \/ Called(inv, "load", "fail")
    \/ Called(inv, "load", "raise")

\* C10: failure isolation.  When forced convergence is active and the
\* reconciler of one backend fails, the reconcilers of every other
\* backend applicable to the platform are still invoked in the same run.
\* The code lets the exceptions of a reconciler end the run.
C10_FailureDoesNotBlockOthers ==
    ( /\ pc \in {"Done", "Crashed"}
      /\ force
      /\ \E k \in 1..Len(hist) : FailedReconciler(hist[k]) )
    => \A m \in ApplicableTo(system) : InvocationsOf(m) # {}

(***************************************************************************)
(* Failed writes, under SpecLaunchd and SpecCron.                          *)
(***************************************************************************)
\* The write of the plist file failed: open or f.write raised.
PlistWriteFailed(inv) ==
    Called(inv, "write", "raise") \/ Called(inv, "write", "truncate")

\* C11: a failed write leaves the store no more broken than before.  If the
\* write of the plist file fails during an update, the plist file holds the
\* content it held before and a registration that was active is still
\* active.  The code has unloaded the registration before it writes.
C11_FailedWriteKeepsManifest ==
    \A k \in InvocationsOf("launchd") :
        (hist[k].before.plist.exists /\ PlistWriteFailed(hist[k]))
        => /\ hist[k].after.plist = hist[k].before.plist
           /\ hist[k].before.loaded => hist[k].after.loaded

\* C12: the cron write is all or nothing.  When the crontab command is
\* unavailable or the install exits non-zero, setup_cron returns normally
\* and the stored table is as it was.  The code raises on the listing of
\* line 43 when crontab cannot be run.
C12_CronWriteAllOrNothing ==
    \A k \in InvocationsOf("cron") :
        ( \/ Called(hist[k], "crontab-l", "raise")
          \/ Called(hist[k], "crontab-install", "raise")
          \/ Called(hist[k], "crontab-install", "fail") )
        => /\ ~hist[k].raised
           /\ hist[k].after.crontab = hist[k].before.crontab

(***************************************************************************)
(* Selection, forcing, the probe and the order of a run, under Spec.       *)
(***************************************************************************)
\* The default backend of a platform main supports.
PlatformDefault(sys) ==
    IF sys = "Darwin" THEN "launchd"
    ELSE IF sys = "Linux" THEN "cron"
    ELSE "windows"

\* The backends applicable to the platform that the probe reported present.
PresentApplicable == {m \in ApplicableTo(system) : existing[m]}

\* C13: selection in auto mode.  The selected backend is applicable to the
\* host platform; when the probe reported an applicable backend present, a
\* present one is selected (on Darwin launchd before cron); when it
\* reported none, the platform default is selected (Darwin launchd, Linux
\* cron, Windows the batch file).
C13_AutoSelection ==
    (args.method = "auto" /\ method # "none")
    => /\ method \in ApplicableTo(system)
       /\ PresentApplicable # {} => method \in PresentApplicable
       /\ PresentApplicable = {} => method = PlatformDefault(system)
       /\ (system = "Darwin" /\ existing.launchd) => method = "launchd"

\* main on Darwin in auto mode found the job in the cron table and no plist
\* file, and selected cron instead of the default.
C13_Witness ==
    /\ args.method = "auto"
    /\ system = "Darwin"
    /\ existing.cron /\ ~existing.launchd
    /\ method = "cron"
    /\ pc = "ConflictCheck"

\* The methods whose reconcilers the run has invoked, in order.
MethodsInvoked == [k \in 1..Len(hist) |-> hist[k].method]

\* What a forced run is to invoke: the selected method's reconciler, then
\* the reconciler of every other backend applicable to the platform.
ForcedPlan(m, sys) ==
    <<m>> \o Select(Methods, [x \in Range(Methods) |->
                                 x # m /\ x \in ApplicableTo(sys)])

\* The process has ended.
Ended == pc \in {"Done", "Cancelled", "Unsupported", "Crashed"}

\* C14: with --force-update the run does not prompt, and it invokes the
\* selected backend's reconciler and then the reconciler of every other
\* backend applicable to the platform, whether or not the probe reported
\* it.  A reconciler that raises ends the run before the others are invoked.
C14_ForceInvokesAllApplicable ==
    (args.force /\ pc \in {"Done", "Crashed"})
    => /\ answer = "none"
       /\ MethodsInvoked = ForcedPlan(method, system)

\* C16: the probe is read-only and total.  When detect_existing_scheduler
\* has returned, the cron table, the plist files, the registration, the
\* batch file and the logs directory are as they were, no reconciler has
\* run, the result has a truth value for each of the three backends, and
\* cron is reported absent when the crontab command is missing or lists
\* nothing.
C16_ProbeReadOnlyAndTotal ==
    pc = "Selecting"
    => /\ Stores = stores0
       /\ hist = <<>>
       /\ existing \in [{"cron", "launchd", "windows"} -> BOOLEAN]
       /\ host.crontab = "missing" => ~existing.cron
       /\ crontab = <<>> => ~existing.cron
       /\ exit = -1

\* The probe has returned on a host without the crontab command whose stored
\* table names the script: cron is reported absent.
C16_Witness ==
    /\ pc = "Selecting"
    /\ host.crontab = "missing"
    /\ system \in {"Darwin", "Linux"}
    /\ Contains(crontab, <<P>>)
    /\ ~existing.cron

\* C17: on a platform that is none of Darwin, Linux and Windows every run
\* ends with exit status 1 and invokes no reconciler.  The code checks the
\* platform in auto mode only.
C17_UnsupportedPlatformExits ==
    (system \notin {"Darwin", "Linux", "Windows"})
    => /\ hist = <<>>
       /\ Ended => exit = 1

\* C18: run ordering.  Nothing is selected before the probe has returned,
\* no reconciler is invoked before the conflict decision, a cancelled run
\* was cancelled at the prompt, and once a reconciler has been invoked the
\* run does not end before every scheduled reconciler has run and it has
\* reached Done.  A reconciler that raises ends the run at once.
C18_RunOrdering ==
    /\ pc = "Probing" => (existing = NoExisting /\ method = "none")
    /\ pc \in {"Probing", "Selecting"} => (method = "none" /\ answer = "none")
    /\ pc \in {"Probing", "Selecting", "ConflictCheck"} => hist = <<>>
    /\ pc = "Cancelled" => (hist = <<>> /\ Declined)
    /\ pc = "Unsupported" => hist = <<>>
    /\ hist # <<>> => pc \in {"Others", "Done"}
    /\ pc = "Done" =>
          MethodsInvoked = IF force THEN ForcedPlan(method, system)
                           ELSE <<method>>

(***************************************************************************)
(* Properties of show_windows_instructions, under SpecWindows.             *)
(***************************************************************************)
\* The invocation tried to write the batch file.
WriteAttempted(inv) == OpsIn(inv.calls, {"write"}) # <<>>

\* The batch file holds, after trimming, the generated content.
MatchesGenerated(file) ==
    file.exists /\ Strip(file.content) = Strip(BatchContent)

\* C19 as stated: the batch file is written when it is absent or when its
\* trimmed content differs from the generated content, no write is made
\* when the trimmed contents are equal, and in all three cases the
\* instructions are printed.
C19_CompareThenWriteAlwaysInstructs ==
    \A k \in InvocationsOf("windows") :
        Called(hist[k], "makedirs", "ok")
        => /\ WriteAttempted(hist[k]) <=> ~MatchesGenerated(hist[k].before.batch)
           /\ hist[k].instructions # "none"

\* C19, amended: when the logs directory can be made and an existing batch
\* file can be read, a write is attempted exactly when the file is absent
\* or its trimmed content differs from the generated content; a write that
\* succeeds leaves the generated content (created when the file was absent,
\* updated otherwise), no write leaves the file as it was; the instructions
\* are printed exactly when no write was needed or the write succeeded.  A
\* file that cannot be read is written whatever it holds.
C19_CompareThenWrite ==
    \A k \in InvocationsOf("windows") :
        Called(hist[k], "makedirs", "ok")
        => /\ ~Called(hist[k], "read", "raise")
              => (WriteAttempted(hist[k])
                    <=> ~MatchesGenerated(hist[k].before.batch))
           /\ Called(hist[k], "read", "raise") => WriteAttempted(hist[k])
           /\ Called(hist[k], "write", "ok")
              => /\ hist[k].after.batch = File(BatchContent)
                 /\ hist[k].branch = IF hist[k].before.batch.exists
                                     THEN "update" ELSE "create"
           /\ ~WriteAttempted(hist[k])
              => /\ hist[k].after.batch = hist[k].before.batch
                 /\ hist[k].branch = "noop"
           /\ hist[k].instructions # "none"
              <=> (~WriteAttempted(hist[k]) \/ Called(hist[k], "write", "ok"))
           /\ hist[k].raised <=> hist[k].instructions = "none"

\* A batch file that equals the generated content only after trimming was
\* read and left alone, and the instructions were printed.
C19_Witness ==
    \E k \in InvocationsOf("windows") :
        /\ hist[k].before.batch.exists
        /\ hist[k].before.batch.content # BatchContent
        /\ MatchesGenerated(hist[k].before.batch)
        /\ Called(hist[k], "read", "ok")
        /\ ~WriteAttempted(hist[k])
        /\ hist[k].after.batch = hist[k].before.batch
        /\ hist[k].instructions = "update"

\* C20: the instructions printed are the "first time" walkthrough exactly
\* when the batch file did not exist before the call, and the "already
\* exists" wording exactly when it did, whether or not the call wrote the
\* file.
C20_WordingByPreExistence ==
    \A k \in InvocationsOf("windows") :
        hist[k].instructions # "none"
        => /\ hist[k].instructions = "first" <=> ~hist[k].before.batch.exists
           /\ hist[k].instructions = "update" <=> hist[k].before.batch.exists

\* The call created the batch file, which therefore exists when the
\* instructions are printed, and printed the "first time" walkthrough; the
\* next call found it and printed the "already exists" wording without
\* writing.
C20_Witness ==
    \E k, l \in InvocationsOf("windows") :
        /\ l = k + 1
        /\ ~hist[k].before.batch.exists
        /\ Called(hist[k], "write", "ok")
        /\ hist[k].after.batch.exists
        /\ hist[k].instructions = "first"
        /\ ~WriteAttempted(hist[l])
        /\ hist[l].instructions = "update"

\* The run is forced: by --force-update, or by the answer f at the prompt.
ForcedByFlag == args.force

ForcedByAnswer == answer # "none" /\ Lower(answer) = "f"

\* s is a prefix of t.
IsPrefix(s, t) == Len(s) <= Len(t) /\ s = SubSeq(t, 1, Len(s))

\* The result of method m's reconciler on the stores st when none of its
\* calls fails.
OkResult(m, time, st, h) ==
    CHOOSE r \in {Reconcile(m, time, st, env) : env \in Envs(m, h)} :
        AllCallsOk(r)

\* The stores after the reconcilers of ms have run in order from the stores
\* st, none of their calls failing.
RECURSIVE ForcedOutcome(_, _, _, _)
ForcedOutcome(ms, time, st, h) ==
    IF ms = <<>> THEN st
    ELSE ForcedOutcome(Tail(ms), time, OkResult(Head(ms), time, st, h).after, h)

\* C15: the answer f at the prompt acts as --force-update.  A run forced
\* either way enters the Applying step with force set, the stores as probed
\* and no reconciler invoked; it invokes the selected reconciler and then
\* the other applicable ones, in the same order, up to the first one that
\* raises; and when no call fails it ends with the stores that this
\* sequence of reconcilers yields from the probed stores.  Both kinds of run
\* are therefore the same function of the probed state, the platform, the
\* selected method and the outcomes of the calls.
C15_ForceAnswerActsAsFlag ==
    (ForcedByFlag \/ ForcedByAnswer)
    => /\ pc = "Applying" => (force /\ hist = <<>> /\ Stores = stores0)
       /\ pc \in {"Others", "Crashed"}
          => IsPrefix(MethodsInvoked, ForcedPlan(method, system))
       /\ pc = "Crashed" => hist[Len(hist)].raised
       /\ pc = "Done"
          => /\ MethodsInvoked = ForcedPlan(method, system)
             /\ exit = 0
             /\ (\A k \in 1..Len(hist) : AllCallsOk(hist[k]))
                => Stores = ForcedOutcome(ForcedPlan(method, system),
                                          args.time, stores0, host)

\* A run without --force-update was answered f at the prompt, invoked two
\* reconcilers without a failing call, changed the stores and ended.
C15_Witness ==
    /\ ~args.force
    /\ ForcedByAnswer
    /\ pc = "Done"
    /\ Len(hist) = 2
    /\ \A k \in 1..Len(hist) : AllCallsOk(hist[k])
    /\ Stores # stores0

(***************************************************************************)
(* The create path of setup_launchd, under SpecLaunchd.                    *)
(***************************************************************************)
\* C21: manifest create.  When no plist file exists at the canonical path,
\* setup_launchd writes the file and then loads it, in that order, and makes
\* no unload call (and no read).  Stated for the calls that get past
\* os.makedirs; a write that raises ends the call, so load follows the
\* write exactly when the write succeeded.
C21_CreateWritesThenLoads ==
    \A k \in InvocationsOf("launchd") :
        (~hist[k].before.plist.exists /\ Called(hist[k], "makedirs", "ok"))
        => /\ OpsIn(hist[k].calls, LaunchdOps \cup {"read"})
                = IF Called(hist[k], "write", "ok")
                  THEN <<"write", "load">>
                  ELSE <<"write">>
           /\ hist[k].branch = "create"
           /\ Called(hist[k], "write", "ok")
              => hist[k].after.plist = File(PlistContent)
           /\ Called(hist[k], "load", "ok") => hist[k].after.loaded

\* The plist file was absent; it was written and then loaded.
C21_Witness ==
    \E k \in InvocationsOf("launchd") :
        /\ ~hist[k].before.plist.exists
        /\ ~hist[k].before.loaded
        /\ hist[k].calls = <<Call("makedirs", "ok"), Call("write", "ok"),
                             Call("load", "ok")>>
        /\ hist[k].after.plist = File(PlistContent)
        /\ hist[k].after.loaded

(***************************************************************************)
(* The insert and the no-op path of setup_cron, under SpecCron.            *)
(***************************************************************************)
\* C22: cron insert.  When no line of the table setup_cron has read
\* references the target path, it calls the install command once with the
\* lines it retains (the non-blank ones, verbatim and in order) followed by
\* the desired line, which is the last line and the only one referencing
\* the target; the stored table is that table when the install succeeds and
\* the old one when it fails.
C22_InsertAppendsOnce ==
    \A k \in InvocationsOf("cron") :
        LET job == JobLine(hist[k].time)
        IN  ( /\ Called(hist[k], "crontab-l", "ok")
              /\ TargetLinesOf(hist[k].before.crontab) = <<>> )
            => /\ hist[k].branch = "add"
               /\ OpsIn(hist[k].calls, {"crontab-install"})
                    = <<"crontab-install">>
               /\ Called(hist[k], "crontab-install", "ok")
                  => /\ hist[k].after.crontab
                          = NewCrontab(Append(
                                ForeignLinesOf(hist[k].before.crontab), job))
                     /\ TargetLinesOf(hist[k].after.crontab) = <<job>>
               /\ ~Called(hist[k], "crontab-install", "ok")
                  => hist[k].after.crontab = hist[k].before.crontab

\* The job was added to a table that held two foreign lines and a blank
\* one: it is the last of three lines.
C22_Witness ==
    \E k \in InvocationsOf("cron") :
        LET after == SplitLines(hist[k].after.crontab)
        IN  /\ TargetLinesOf(hist[k].before.crontab) = <<>>
            /\ Len(ForeignLinesOf(hist[k].before.crontab)) = 2
            /\ Len(SplitLines(hist[k].before.crontab)) = 3
            /\ Called(hist[k], "crontab-install", "ok")
            /\ Len(after) = 3
            /\ after[3] = JobLine(hist[k].time)

\* C25: setup_cron takes its "already exists with the correct settings"
\* path, returning without the install command, only when every line of
\* the table it read that references the target path equals the desired
\* line, and then the stored table is unchanged.  The code takes this path
\* whenever some line references the target path.
C25_NoOpOnlyWhenIdentical ==
    \A k \in InvocationsOf("cron") :
        hist[k].branch = "noop"
        => /\ LET ts == TargetLinesOf(hist[k].before.crontab)
              IN  \A i \in 1..Len(ts) : ts[i] = JobLine(hist[k].time)
           /\ OpsIn(hist[k].calls, {"crontab-install"}) = <<>>
           /\ hist[k].after.crontab = hist[k].before.crontab

(***************************************************************************)
(* The watchdog of the batch file, under SpecWindows.                      *)
(***************************************************************************)
\* C23: watchdog ceiling.  Whenever show_windows_instructions prints its
\* instructions, in either wording, the timeout of the batch file it
\* generates (600 seconds) is strictly less than the task limit the
\* instructions recommend (15 minutes).
C23_WatchdogBelowLimit ==
    \A k \in InvocationsOf("windows") :
        hist[k].instructions # "none"
        => WatchdogSeconds < 60 * InstructionLimitMinutes(hist[k].instructions)

\* Both wordings were printed for a generated batch file: the walkthrough by
\* the call that created it, the "already exists" wording by the next.
C23_Witness ==
    \E k, l \in InvocationsOf("windows") :
        /\ hist[k].instructions = "first"
        /\ hist[k].after.batch = File(BatchContent)
        /\ hist[l].instructions = "update"
        /\ hist[l].after.batch = File(BatchContent)
        /\ WatchdogSeconds < 60 * InstructionLimitMinutes("first")
        /\ WatchdogSeconds < 60 * InstructionLimitMinutes("update")

(***************************************************************************)
(* Runs without forced convergence, under Spec.                            *)
(***************************************************************************)
\* The run has got past the conflict decision and invoked a reconciler.
Proceeded == pc \in {"Others", "Done", "Crashed"}

\* C24: without --force-update and without the answer f, a run that
\* proceeds invokes exactly one reconciler, the selected backend's, and the
\* stores of every other backend (cron table; plist file and registration;
\* batch file) are as they were before the run.
C24_UnforcedRunsOneReconciler ==
    (~ForcedByFlag /\ ~ForcedByAnswer)
    => /\ ~force
       /\ pending = <<>>
       /\ Proceeded => MethodsInvoked = <<method>>
       /\ \A m \in Range(Methods) :
             m # method => BackendStore(m, Stores) = BackendStore(m, stores0)

\* A run on Darwin with cron also present was answered yes, reconciled
\* launchd alone, changed its store and ended.
C24_Witness ==
    /\ ~args.force
    /\ answer \in {"y", "Y", "yes"}
    /\ existing.cron
    /\ method = "launchd"
    /\ pc = "Done"
    /\ Len(hist) = 1
    /\ BackendStore("launchd", Stores) # BackendStore("launchd", stores0)
    /\ crontab = stores0.crontab

(***************************************************************************)
(* The probe and the reconcilers, under Spec.                              *)
(***************************************************************************)
\* The probe has returned on a platform where it lists the cron table, and
\* the listing worked.
CronProbed ==
    /\ pc # "Probing"
    /\ system \in {"Darwin", "Linux"}
    /\ host.crontab = "ok"

\* C26: the probe and the reconciler agree on cron presence.  The probe
\* reports cron present exactly when setup_cron's scan of the same table
\* finds an existing entry, so a table probed present gets no job line
\* appended and a table probed absent is not treated as an update.  The
\* probe looks for the path anywhere in the listing, the scan for the path
\* after a space.
C26_ProbeAgreesWithScan ==
    CronProbed
    => /\ existing.cron
            <=> CronScan(SplitLines(stores0.crontab), JobLine(args.time)).has
       /\ \A k \in InvocationsOf("cron") :
             hist[k].before.crontab = stores0.crontab
             => /\ existing.cron => hist[k].branch # "add"
                /\ ~existing.cron => hist[k].branch \notin {"noop", "update"}

\* C27: after a run that applies the launchd backend, at most one plist
\* file for the job exists in ~/Library/LaunchAgents, also when launchd was
\* detected through the legacy path only.  setup_launchd writes the
\* canonical file and never looks at the legacy one.
C27_AtMostOneManifest ==
    (pc = "Done" /\ InvocationsOf("launchd") # {})
    => ~(plist.exists /\ oldPlist)

\* C28: in every run each reconciler is invoked at most once, and only for
\* a backend applicable to the platform (cron on Darwin and Linux, launchd
\* on Darwin, the batch file on Windows), also when the backend is chosen
\* with --method.  The code checks the platform for the other methods of a
\* forced run and in auto mode, and not for an explicit --method.
C28_OnlyApplicableOnce ==
    /\ \A k, l \in 1..Len(hist) : hist[k].method = hist[l].method => k = l
    /\ \A k \in 1..Len(hist) : hist[k].method \in ApplicableTo(system)

\* C29: every backend named in the conflict warning is one that a forced
\* run reconciles.  When the user has answered f and the run has ended
\* without a reconciler raising, each backend of other_existing has had its
\* reconciler invoked.  The probe reports the batch file on every platform;
\* the forced run reconciles it on Windows only.
C29_ListedConflictsAreReconciled ==
    (ForcedByAnswer /\ pc = "Done")
    => \A m \in Range(OtherExisting(existing, method)) :
          InvocationsOf(m) # {}

(***************************************************************************)
(* Two calls of setup_cron beside each other, under SpecRace.              *)
(***************************************************************************)
\* Both calls have ended, and no command failed in either.
RaceOver ==
    \A p \in Procs : procs[p].pc = "done" /\ procs[p].ok

\* C30: when two calls of setup_cron for the same script, with the same or
\* different times, interleave their read of the table and their install
\* in any order, the table they leave holds exactly one line referencing
\* the target path, and it is the desired line of one of the two calls.
\* Stated for the runs in which no command fails.  A call that reads a
\* table holding a line for the script never installs anything.
C30_RaceLeavesOneDesiredLine ==
    RaceOver
    => LET ts == TargetLinesOf(crontab)
       IN  /\ Len(ts) = 1
           /\ ts[1] \in {JobLine(procs[p].time) : p \in Procs}

=============================================================================
